---- MODULE Spec2Model ----
(***************************************************************************)
(* DfuSe driver (src/dfuse.driver.ts): memory-map queries, the DfuSe       *)
(* command codec, the erase engine, the write pipeline and the read        *)
(* pipeline, as a state machine over one driver session and one device.    *)
(***************************************************************************)
EXTENDS Integers, Sequences, FiniteSets, TLC

\* ------------------------------------------------------------------ bounds
MaxAddr == 9
MaxLen == 4
MaxChunk == 2
MaxPolls == 1
MaxShort == 1
MaxErase == 6
MaxParamLen == 5

\* ------------------------------------------------------- program constants
GET_COMMANDS == 0
SET_ADDRESS == 33
ERASE_SECTOR == 65

\* startAddress: number = NaN  (the "unset" sentinel; no address is negative)
NaN == -1
\* the value of segments[0]?.start when the segment list is empty
Undefined == -2
\* a missing segment (null) as a segment index; segments are indexed from 1
Null == 0

isNaN(x) == x = NaN
\* JavaScript falsiness of a number-or-undefined: !x
Falsy(x) == x = Undefined \/ x = 0 \/ x = NaN

Min(a, b) == IF a < b THEN a ELSE b

\* base-protocol names used by this driver (dfuCommands.*)
dfuIDLE == "dfuIDLE"
dfuDNBUSY == "dfuDNBUSY"
dfuDNLOAD_IDLE == "dfuDNLOAD_IDLE"
dfuMANIFEST == "dfuMANIFEST"
STATUS_OK == "STATUS_OK"
DevStates == {dfuIDLE, dfuDNBUSY, dfuDNLOAD_IDLE, dfuMANIFEST}
DevStatuses == {STATUS_OK, "errTARGET"}

\* ------------------------------------------------------------- memory maps
Seg(s, e, ss, r, er, w) ==
  [start |-> s, end |-> e, sectorSize |-> ss,
   readable |-> r, erasable |-> er, writable |-> w]

NoMap == [present |-> FALSE, segments |-> <<>>]
MapOf(segs) == [present |-> TRUE, segments |-> segs]

\* The memory maps a session is constructed with: no map, an empty map, a
\* single segment (starting at 0 or not, writable or not), a non-erasable
\* segment followed by
\* an erasable one, maps with a gap (with and without a segment at address
\* 0), and three contiguous segments of different sector sizes.
Maps ==
  { NoMap,
    MapOf(<<>>),
    MapOf(<<Seg(2, 6, 2, TRUE, TRUE, TRUE)>>),
    MapOf(<<Seg(0, 4, 2, TRUE, TRUE, TRUE)>>),
    MapOf(<<Seg(4, 8, 4, TRUE, TRUE, FALSE)>>),
    MapOf(<<Seg(2, 4, 2, TRUE, FALSE, FALSE), Seg(4, 8, 2, TRUE, TRUE, TRUE)>>),
    MapOf(<<Seg(0, 2, 1, TRUE, TRUE, TRUE), Seg(4, 6, 2, TRUE, TRUE, TRUE)>>),
    MapOf(<<Seg(2, 4, 2, TRUE, TRUE, TRUE), Seg(6, 8, 2, FALSE, TRUE, TRUE)>>),
    MapOf(<<Seg(1, 3, 1, TRUE, TRUE, TRUE), Seg(3, 7, 2, TRUE, TRUE, TRUE),
            Seg(7, 9, 2, FALSE, FALSE, FALSE)>>) }

\* if (!this.memoryInfo || !this.memoryInfo.segments) throw ...
HasMap(mi) == mi.present

\* variant: the end of the range taken as inclusive
InSegment_inclusiveEnd(seg, a) == seg.start <= a /\ a <= seg.end

\* segment.start <= addr && addr < segment.end
InSegment(seg, a) == seg.start <= a /\ a < seg.end

\* getSegment: the first segment, in map order, that contains addr; else null
getSegment(mi, a) ==
  LET hits == {i \in 1..Len(mi.segments) : InSegment(mi.segments[i], a)}
  IN IF hits = {} THEN Null
     ELSE CHOOSE i \in hits : \A j \in hits : i <= j

\* segment?.end ?? 0
SegEnd(mi, i) == IF i = Null THEN 0 ELSE mi.segments[i].end
\* segment?.erasable (undefined, hence falsy, for a null segment)
SegErasable(mi, i) == IF i = Null THEN FALSE ELSE mi.segments[i].erasable

\* Math.floor((addr - segment.start) / segment.sectorSize)
sectorIndex(seg, a) == (a - seg.start) \div seg.sectorSize

\* variant: an address on a sector boundary is taken as its own sector end
getSectorEnd_roundUp(seg, a) ==
  seg.start
  + ((a - seg.start + seg.sectorSize - 1) \div seg.sectorSize) * seg.sectorSize

\* getSectorStart / getSectorEnd for a resolved (non-null) segment
getSectorStart(seg, a) == seg.start + sectorIndex(seg, a) * seg.sectorSize
getSectorEnd(seg, a) == seg.start + (sectorIndex(seg, a) + 1) * seg.sectorSize

\* variant: a later segment is included whether or not it is adjacent
contiguous_ignoringGaps(seg, startAddr, numBytes) ==
  seg.start >= startAddr + numBytes

\* getMaxReadSize: segment.start === startAddr + numBytes
contiguous(seg, startAddr, numBytes) == seg.start = startAddr + numBytes

\* getMaxReadSize: the loop over the segments from index i on, numBytes so far
RECURSIVE maxReadFrom(_, _, _, _)
maxReadFrom(segs, i, startAddr, numBytes) ==
  IF i > Len(segs) THEN numBytes
  ELSE IF InSegment(segs[i], startAddr)
  THEN IF segs[i].readable
       THEN maxReadFrom(segs, i + 1, startAddr,
                        numBytes + segs[i].end - startAddr)
       ELSE 0
  ELSE IF contiguous(segs[i], startAddr, numBytes)
  THEN IF segs[i].readable
       THEN maxReadFrom(segs, i + 1, startAddr,
                        numBytes + segs[i].end - segs[i].start)
       ELSE numBytes
  ELSE maxReadFrom(segs, i + 1, startAddr, numBytes)

\* getMaxReadSize(startAddr) on a loaded map
getMaxReadSize(mi, startAddr) == maxReadFrom(mi.segments, 1, startAddr, 0)

\* ------------------------------------------------------------ command codec
\* DataView.setUint8(_, v): one byte, v modulo 256
setUint8(v) == <<v % 256>>

\* variant: four bytes, most significant first
setUint32_bigEndian(v) ==
  <<(v \div 16777216) % 256, (v \div 65536) % 256, (v \div 256) % 256, v % 256>>

\* DataView.setUint32(_, v, true): four bytes, least significant first
RECURSIVE leBytes(_, _)
leBytes(v, n) == IF n = 0 THEN <<>> ELSE <<v % 256>> \o leBytes(v \div 256, n - 1)
setUint32(v) == leBytes(v, 4)

\* the lengths dfuseCommand encodes; any other length throws
SupportedLen(len) == len = 1 \/ len = 4

\* payload of dfuseCommand(command, param, len), for a supported len
dfusePayload(command, param, len) ==
  setUint8(command) \o (IF len = 1 THEN setUint8(param) ELSE setUint32(param))

\* -------------------------------------------------------------------- state
VARIABLES
  memoryInfo,     \* this.memoryInfo (fixed at construction)
  startAddress,   \* this.startAddress (NaN when unset)
  op,             \* the operation the caller invoked ("none" before)
  args,           \* its arguments
  ret,            \* the value a query returned
  pc,             \* position of the running operation
  ctx,            \* the caller a running dfuseCommand returns to
  result,         \* <<"running">>, <<"ok">> or the chain of errors thrown
  xfer_size,      \* do_write / do_read argument
  expected_size,  \* data.byteLength
  startAddr,      \* the local startAddress of do_write / do_read
  bytes_sent,     \* do_write local
  address,        \* do_write local (address cursor)
  chunk_size,     \* do_write local
  bytes_written,  \* do_write local
  dfu_status,     \* result of the most recent poll
  segment,        \* erase local (index into the map, Null for null)
  addr,           \* erase local
  endAddr,        \* erase local
  bytesErased,    \* erase local
  bytesToErase,   \* erase local
  sectorAddr,     \* erase local
  state,          \* do_read local: the state getState() reported
  trace,          \* device operations issued so far, in order
  polls,          \* GETSTATUS reports of the running poll that did not end it
  shortWrites,    \* chunk transfers the device accepted only in part
  progress,       \* arguments of the most recent logProgress call
  logs            \* kinds of messages logged so far

session == <<memoryInfo, startAddress>>
invocation == <<op, args, ret>>
callVars == <<xfer_size, expected_size, startAddr>>
chunkVars == <<bytes_sent, address, chunk_size, bytes_written>>
eraseVars == <<segment, addr, endAddr, bytesErased, bytesToErase, sectorAddr>>
vars == <<memoryInfo, startAddress, op, args, ret, pc, ctx, result, xfer_size, expected_size,
          startAddr, bytes_sent, address, chunk_size, bytes_written, dfu_status,
          segment, addr,
          endAddr, bytesErased, bytesToErase, sectorAddr, state, trace, polls,
          shortWrites, progress, logs>>

NoStatus == [state |-> "none", status |-> "none"]
NoProgress == [called |-> FALSE, done |-> 0, total |-> 0]
Progress(d, t) == [called |-> TRUE, done |-> d, total |-> t]

\* device operations as they appear in the trace
WriteEv(blk, bytes) == [op |-> "write", blk |-> blk, data |-> bytes]
GetStateEv == [op |-> "getState", blk |-> 0, data |-> <<>>]
AbortEv == [op |-> "abortToIdle", blk |-> 0, data |-> <<>>]
ReadEv(off) == [op |-> "read", blk |-> off, data |-> <<>>]

\* variant: every chunk is cut from the beginning of the image
slice_fromZero(from, to) == [i \in 1..(to - from) |-> i - 1]

\* data.slice(from, to): the image is the byte sequence 0, 1, 2, ...
slice(from, to) == [i \in 1..(to - from) |-> from + i - 1]

StartAddresses == {NaN} \cup 0..MaxAddr

Init ==
  /\ memoryInfo \in Maps
  /\ startAddress \in StartAddresses
  /\ op = "none"
  /\ args = <<>>
  /\ ret = 0
  /\ pc = "idle"
  /\ ctx = "none"
  /\ result = <<"running">>
  /\ xfer_size = 0
  /\ expected_size = 0
  /\ startAddr = NaN
  /\ bytes_sent = 0
  /\ address = 0
  /\ chunk_size = 0
  /\ bytes_written = 0
  /\ dfu_status = NoStatus
  /\ segment = Null
  /\ addr = 0
  /\ endAddr = 0
  /\ bytesErased = 0
  /\ bytesToErase = 0
  /\ sectorAddr = 0
  /\ state = "none"
  /\ trace = <<>>
  /\ polls = 0
  /\ shortWrites = 0
  /\ progress = NoProgress
  /\ logs = {}

\* an exception leaves the operation: the operation ends with the error chain
Throw(chain) == pc' = "done" /\ result' = chain

\* the catch blocks of do_write wrap whatever a dfuseCommand or transfer throws
Wrap(c, chain) ==
  IF c = "chunk" THEN <<"DfuWriteError">> \o chain
  ELSE IF c = "manifest" THEN <<"ManifestationError">> \o chain
  ELSE chain

\* ------------------------------------------------------------ dfuseCommand
\* dfuseCommand up to its first await: build the payload, issue write(payload, 0)
dfuseCommand(command, param, len, c) ==
  IF SupportedLen(len)
  THEN /\ trace' = Append(trace, WriteEv(0, dfusePayload(command, param, len)))
       /\ pc' = "cmd_write"
       /\ ctx' = c
       /\ result' = result
  ELSE /\ Throw(Wrap(c, <<"UnsupportedParamLength">>))
       /\ UNCHANGED <<trace, ctx>>

\* variant: the command poll ends with the first report, whatever the state
CmdPollEnds_firstReport == DevStates

\* the states that end each poll of this driver (the predicates handed to
\* poll_until / poll_until_idle)
CmdPollEnds == DevStates \ {dfuDNBUSY}
ChunkPollEnds == {dfuDNLOAD_IDLE}
ManifestPollEnds == {dfuMANIFEST}
PollEnds(p) ==
  IF p = "cmd_poll" THEN CmdPollEnds
  ELSE IF p = "chunk_poll" THEN ChunkPollEnds
  ELSE ManifestPollEnds

\* poll_until: a GETSTATUS report whose state does not satisfy the predicate
\* is followed by another GETSTATUS
PollAgain ==
  /\ pc \in {"cmd_poll", "chunk_poll", "manifest_poll"}
  /\ polls < MaxPolls
  /\ \E s \in DevStates \ PollEnds(pc) : polls' = polls + 1
  /\ UNCHANGED <<session, invocation, pc, ctx, result, callVars, chunkVars, dfu_status,
                 eraseVars, state, trace, shortWrites, progress, logs>>

\* dfuseCommand: await this.write(payload, 0) returns or throws
CmdWriteDone ==
  /\ pc = "cmd_write"
  /\ \/ /\ pc' = "cmd_poll"
        /\ polls' = 0
        /\ UNCHANGED result
     \/ /\ Throw(Wrap(ctx, <<"DfuseCommandFailed", "TransportError">>))
        /\ UNCHANGED polls
  /\ UNCHANGED <<session, invocation, ctx, callVars, chunkVars, dfu_status, eraseVars,
                 state, trace, shortWrites, progress, logs>>

\* variant: the status of a command poll is never taken as a failure
commandFailed_never(st) == FALSE

\* dfuseCommand: if (status.status != dfuCommands.STATUS_OK) throw ...
commandFailed(st) == st.status # STATUS_OK

\* dfuseCommand: await this.poll_until(state != dfuDNBUSY) returns or throws
CmdPollDone ==
  /\ pc = "cmd_poll"
  /\ \/ \E s \in CmdPollEnds, st \in DevStatuses :
          LET status == [state |-> s, status |-> st] IN
          /\ dfu_status' = status
          /\ IF commandFailed(status)
             THEN Throw(Wrap(ctx, <<"DfuseCommandFailed">>))
             ELSE pc' = "cmd_ret" /\ UNCHANGED result
     \/ /\ Throw(Wrap(ctx, <<"TransportError">>))
        /\ UNCHANGED dfu_status
  /\ UNCHANGED <<session, invocation, ctx, callVars, chunkVars, eraseVars, state, trace,
                 polls, shortWrites, progress, logs>>

\* -------------------------------------------------------------------- erase
\* erase(startAddr, length) up to its loop: resolve the segment, the first
\* sector start and the end of the last sector, report the initial progress
eraseEntry(sa, length) ==
  LET seg == getSegment(memoryInfo, sa)
      lastSeg == getSegment(memoryInfo, sa + length - 1)
  IN IF seg = Null \/ lastSeg = Null
     THEN /\ Throw(<<"AddressOutOfRange">>)
          /\ UNCHANGED <<eraseVars, progress>>
     ELSE LET a == getSectorStart(memoryInfo.segments[seg], sa)
              e == getSectorEnd(memoryInfo.segments[lastSeg], sa + length - 1)
          IN /\ segment' = seg
             /\ addr' = a
             /\ endAddr' = e
             /\ bytesErased' = 0
             /\ bytesToErase' = e - a
             /\ progress' = IF e - a > 0 THEN Progress(0, e - a) ELSE progress
             /\ pc' = "erase_loop"
             /\ UNCHANGED <<sectorAddr, result>>

\* if ((segment?.end ?? 0) <= addr) segment = this.getSegment(addr)
eraseSegment ==
  IF SegEnd(memoryInfo, segment) <= addr
  THEN getSegment(memoryInfo, addr)
  ELSE segment

\* one iteration of the erase loop over a section that is not erasable
EraseSkip ==
  /\ pc = "erase_loop"
  /\ addr < endAddr
  /\ ~SegErasable(memoryInfo, eraseSegment)
  /\ segment' = eraseSegment
  /\ bytesErased' =
       Min(bytesErased + SegEnd(memoryInfo, eraseSegment) - addr, bytesToErase)
  /\ addr' = SegEnd(memoryInfo, eraseSegment)
  /\ progress' = Progress(bytesErased', bytesToErase)
  /\ UNCHANGED <<session, invocation, pc, ctx, result, callVars, chunkVars, dfu_status,
                 endAddr, bytesToErase, sectorAddr, state, trace, polls,
                 shortWrites, logs>>

\* one iteration of the erase loop over an erasable sector, up to the await
EraseSector ==
  /\ pc = "erase_loop"
  /\ addr < endAddr
  /\ SegErasable(memoryInfo, eraseSegment)
  /\ Len(trace) < MaxErase
  /\ segment' = eraseSegment
  /\ sectorAddr' = getSectorStart(memoryInfo.segments[eraseSegment], addr)
  /\ dfuseCommand(ERASE_SECTOR, sectorAddr', 4, "erase")
  /\ UNCHANGED <<session, invocation, callVars, chunkVars, dfu_status, addr, endAddr,
                 bytesErased, bytesToErase, state, polls, shortWrites,
                 progress, logs>>

\* the rest of that iteration, once the ERASE_SECTOR command has succeeded
EraseResume ==
  /\ pc = "cmd_ret"
  /\ ctx = "erase"
  /\ addr' = sectorAddr + memoryInfo.segments[segment].sectorSize
  /\ bytesErased' = bytesErased + memoryInfo.segments[segment].sectorSize
  /\ progress' = Progress(bytesErased', bytesToErase)
  /\ pc' = "erase_loop"
  /\ UNCHANGED <<session, invocation, ctx, result, callVars, chunkVars, dfu_status,
                 segment, endAddr, bytesToErase, sectorAddr, state, trace,
                 polls, shortWrites, logs>>

\* the erase loop ends; do_write goes on: let address = startAddress
EraseReturn ==
  /\ pc = "erase_loop"
  /\ addr >= endAddr
  /\ address' = startAddr
  /\ pc' = "chunk_loop"
  /\ UNCHANGED <<session, invocation, ctx, result, callVars, bytes_sent, chunk_size,
                 bytes_written, dfu_status, eraseVars, state, trace, polls,
                 shortWrites, progress, logs>>

\* ----------------------------------------------------------------- do_write
\* this.memoryInfo.segments[0]?.start
firstStart(mi) == IF Len(mi.segments) = 0 THEN Undefined ELSE mi.segments[1].start

\* the start address do_write and do_read work with
resolveStart(mi, sa) == IF isNaN(sa) THEN firstStart(mi) ELSE sa

\* if (!startAddress) throw ... (only on the inferred path)
startMissing(sa) == Falsy(sa)

\* do_write(xfer_size, data) up to the first await (inside erase)
do_write(xs, n) ==
  /\ pc = "idle"
  /\ op' = "do_write"
  /\ args' = <<xs, n>>
  /\ xfer_size' = xs
  /\ expected_size' = n
  /\ IF ~HasMap(memoryInfo)
     THEN /\ Throw(<<"NoMemoryMap">>)
          /\ UNCHANGED <<startAddr, logs, eraseVars, progress>>
     ELSE LET sa == resolveStart(memoryInfo, startAddress) IN
          IF isNaN(startAddress) /\ startMissing(sa)
          THEN /\ Throw(<<"StartAddressNotFound">>)
               /\ UNCHANGED <<startAddr, logs, eraseVars, progress>>
          ELSE /\ startAddr' = sa
               /\ logs' = logs \cup
                    (IF isNaN(startAddress) THEN {"warning: inferred start"}
                     ELSE IF getSegment(memoryInfo, sa) = Null
                          THEN {"error: start outside map"}
                          ELSE {})
               /\ eraseEntry(sa, n)
  /\ UNCHANGED <<session, ret, ctx, chunkVars, dfu_status, state, trace, polls,
                 shortWrites>>

\* one more chunk: compute its size and SET_ADDRESS the cursor
WriteChunk ==
  /\ pc = "chunk_loop"
  /\ bytes_sent < expected_size
  /\ chunk_size' = Min(expected_size - bytes_sent, xfer_size)
  /\ bytes_written' = 0
  /\ dfuseCommand(SET_ADDRESS, address, 4, "chunk")
  /\ UNCHANGED <<session, invocation, callVars, bytes_sent, address, dfu_status,
                 eraseVars, state, polls, shortWrites, progress, logs>>

\* SET_ADDRESS succeeded: transfer the chunk at block index 2
ChunkTransfer ==
  /\ pc = "cmd_ret"
  /\ ctx = "chunk"
  /\ trace' = Append(trace, WriteEv(2, slice(bytes_sent, bytes_sent + chunk_size)))
  /\ pc' = "chunk_xfer"
  /\ UNCHANGED <<session, invocation, ctx, result, callVars, chunkVars, dfu_status,
                 eraseVars, state, polls, shortWrites, progress, logs>>

\* await this.write(chunk, 2) returns the bytes written, or throws
ChunkTransferDone ==
  /\ pc = "chunk_xfer"
  /\ \/ /\ bytes_written' = chunk_size
        /\ pc' = "chunk_poll"
        /\ polls' = 0
        /\ UNCHANGED <<result, shortWrites>>
     \/ /\ shortWrites < MaxShort
        /\ \E w \in 0..(chunk_size - 1) : bytes_written' = w
        /\ shortWrites' = shortWrites + 1
        /\ pc' = "chunk_poll"
        /\ polls' = 0
        /\ UNCHANGED result
     \/ /\ Throw(<<"DfuWriteError", "TransportError">>)
        /\ UNCHANGED <<bytes_written, polls, shortWrites>>
  /\ UNCHANGED <<session, invocation, ctx, callVars, bytes_sent, address, chunk_size,
                 dfu_status, eraseVars, state, trace, progress, logs>>

\* variant: the cursor advances by the bytes the device accepted
nextAddress_byWritten(a, cs, bw) == a + bw

\* address += chunk_size (not by bytes_written)
nextAddress(a, cs, bw) == a + cs

\* variant: the status of the chunk poll is never taken as a failure
writeFailed_never(st) == FALSE

\* do_write: if (dfu_status.status != dfuCommands.STATUS_OK) throw ...
writeFailed(st) == st.status # STATUS_OK

\* await this.poll_until_idle(dfuDNLOAD_IDLE) returns or throws; then the
\* cursor advances, the status is checked, the byte counter advances
ChunkPollDone ==
  /\ pc = "chunk_poll"
  /\ \/ \E s \in ChunkPollEnds, st \in DevStatuses :
          LET status == [state |-> s, status |-> st] IN
          /\ dfu_status' = status
          /\ address' = nextAddress(address, chunk_size, bytes_written)
          /\ IF writeFailed(status)
             THEN /\ Throw(<<"DfuWriteFailed">>)
                  /\ UNCHANGED <<bytes_sent, progress>>
             ELSE /\ bytes_sent' = bytes_sent + bytes_written
                  /\ progress' = Progress(bytes_sent', expected_size)
                  /\ pc' = "chunk_loop"
                  /\ UNCHANGED result
     \/ /\ Throw(<<"DfuWriteError", "TransportError">>)
        /\ UNCHANGED <<dfu_status, address, bytes_sent, progress>>
  /\ UNCHANGED <<session, invocation, ctx, callVars, chunk_size, bytes_written, eraseVars,
                 state, trace, polls, shortWrites, logs>>

\* variant: the manifestation address is resolved again from the session
manifestAddress_reread == resolveStart(memoryInfo, startAddress)

\* dfuseCommand(SET_ADDRESS, startAddress, 4): the local resolved at the start
manifestAddress == startAddr

\* all bytes sent: SET_ADDRESS the start address again
Manifest ==
  /\ pc = "chunk_loop"
  /\ bytes_sent >= expected_size
  /\ dfuseCommand(SET_ADDRESS, manifestAddress, 4, "manifest")
  /\ UNCHANGED <<session, invocation, callVars, chunkVars, dfu_status, eraseVars, state,
                 polls, shortWrites, progress, logs>>

\* SET_ADDRESS succeeded: the zero-length write at block index 0
ManifestWrite ==
  /\ pc = "cmd_ret"
  /\ ctx = "manifest"
  /\ trace' = Append(trace, WriteEv(0, <<>>))
  /\ pc' = "manifest_write"
  /\ UNCHANGED <<session, invocation, ctx, result, callVars, chunkVars, dfu_status,
                 eraseVars, state, polls, shortWrites, progress, logs>>

\* await this.write(new ArrayBuffer(0), 0) returns or throws
ManifestWriteDone ==
  /\ pc = "manifest_write"
  /\ \/ /\ pc' = "manifest_poll"
        /\ polls' = 0
        /\ UNCHANGED result
     \/ /\ Throw(<<"ManifestationError", "TransportError">>)
        /\ UNCHANGED polls
  /\ UNCHANGED <<session, invocation, ctx, callVars, chunkVars, dfu_status, eraseVars,
                 state, trace, shortWrites, progress, logs>>

\* variant: the error of the manifest poll is thrown again
manifestPollThrew_rethrown == <<"TransportError">>

\* what do_write ends with when the poll for dfuMANIFEST throws
manifestPollThrew == <<"ok">>

\* await this.poll_until(state === dfuMANIFEST) returns, or throws and the
\* error is logged
ManifestPollDone ==
  /\ pc = "manifest_poll"
  /\ \/ /\ \E s \in ManifestPollEnds, st \in DevStatuses :
             dfu_status' = [state |-> s, status |-> st]
        /\ result' = <<"ok">>
        /\ UNCHANGED logs
     \/ /\ logs' = logs \cup {"error: manifest poll"}
        /\ result' = manifestPollThrew
        /\ UNCHANGED dfu_status
  /\ pc' = "done"
  /\ UNCHANGED <<session, invocation, ctx, callVars, chunkVars, eraseVars, state, trace,
                 polls, shortWrites, progress>>

\* ------------------------------------------------------------------ do_read
\* variant: abort whatever the reported state
needsAbort_always(s) == TRUE

\* if (state != dfuCommands.dfuIDLE) await this.abortToIdle()
needsAbort(s) == s # dfuIDLE

\* the block offset handed to the base read routine
readBlockOffset == 2

\* do_read(xfer_size) up to the first await: resolve the start, getState()
do_read(xs) ==
  /\ pc = "idle"
  /\ op' = "do_read"
  /\ args' = <<xs>>
  /\ xfer_size' = xs
  /\ IF ~HasMap(memoryInfo)
     THEN /\ Throw(<<"NoMemoryMap">>)
          /\ UNCHANGED <<startAddr, logs, trace>>
     ELSE LET sa == resolveStart(memoryInfo, startAddress) IN
          IF isNaN(startAddress) /\ startMissing(sa)
          THEN /\ Throw(<<"StartAddressNotFound">>)
               /\ UNCHANGED <<startAddr, logs, trace>>
          ELSE /\ startAddr' = sa
               /\ logs' = logs \cup
                    (IF isNaN(startAddress) THEN {"warning: inferred start"}
                     ELSE IF getSegment(memoryInfo, sa) = Null
                          THEN {"warning: start outside map"}
                          ELSE {})
               /\ trace' = Append(trace, GetStateEv)
               /\ pc' = "r_getState"
               /\ UNCHANGED result
  /\ UNCHANGED <<session, ret, ctx, expected_size, chunkVars, dfu_status,
                 eraseVars, state, polls, shortWrites, progress>>

\* await this.getState() returns the state or throws
ReadStateDone ==
  /\ pc = "r_getState"
  /\ \/ \E s \in DevStates :
          /\ state' = s
          /\ IF needsAbort(s)
             THEN /\ trace' = Append(trace, AbortEv)
                  /\ pc' = "r_abort"
                  /\ UNCHANGED <<ctx, result>>
             ELSE dfuseCommand(SET_ADDRESS, startAddr, 4, "read")
     \/ /\ Throw(<<"TransportError">>)
        /\ UNCHANGED <<state, trace, ctx>>
  /\ UNCHANGED <<session, invocation, callVars, chunkVars, dfu_status, eraseVars, polls,
                 shortWrites, progress, logs>>

\* the first await this.abortToIdle() returns or throws
ReadAbortDone ==
  /\ pc = "r_abort"
  /\ \/ dfuseCommand(SET_ADDRESS, startAddr, 4, "read")
     \/ /\ Throw(<<"TransportError">>)
        /\ UNCHANGED <<trace, ctx>>
  /\ UNCHANGED <<session, invocation, callVars, chunkVars, dfu_status, eraseVars, state,
                 polls, shortWrites, progress, logs>>

\* SET_ADDRESS succeeded: abortToIdle once more
ReadCommit ==
  /\ pc = "cmd_ret"
  /\ ctx = "read"
  /\ trace' = Append(trace, AbortEv)
  /\ pc' = "r_commit"
  /\ UNCHANGED <<session, invocation, ctx, result, callVars, chunkVars, dfu_status,
                 eraseVars, state, polls, shortWrites, progress, logs>>

\* the second await this.abortToIdle() returns or throws; then the base read
ReadCommitDone ==
  /\ pc = "r_commit"
  /\ \/ /\ trace' = Append(trace, ReadEv(readBlockOffset))
        /\ pc' = "r_read"
        /\ UNCHANGED result
     \/ /\ Throw(<<"TransportError">>)
        /\ UNCHANGED trace
  /\ UNCHANGED <<session, invocation, ctx, callVars, chunkVars, dfu_status, eraseVars,
                 state, polls, shortWrites, progress, logs>>

\* the base read routine returns or throws
ReadDone ==
  /\ pc = "r_read"
  /\ pc' = "done"
  /\ \/ result' = <<"ok">>
     \/ result' = <<"TransportError">>
  /\ UNCHANGED <<session, invocation, ctx, callVars, chunkVars, dfu_status, eraseVars,
                 state, trace, polls, shortWrites, progress, logs>>

\* ------------------------------------------------------------ specification
CallWrite == \E xs \in 1..MaxChunk, n \in 0..MaxLen : do_write(xs, n)
CallRead == \E xs \in 1..MaxChunk : do_read(xs)

Next ==
  \/ CallWrite
  \/ CallRead
  \/ PollAgain
  \/ CmdWriteDone
  \/ CmdPollDone
  \/ EraseSkip
  \/ EraseSector
  \/ EraseResume
  \/ EraseReturn
  \/ WriteChunk
  \/ ChunkTransfer
  \/ ChunkTransferDone
  \/ ChunkPollDone
  \/ Manifest
  \/ ManifestWrite
  \/ ManifestWriteDone
  \/ ManifestPollDone
  \/ ReadStateDone
  \/ ReadAbortDone
  \/ ReadCommit
  \/ ReadCommitDone
  \/ ReadDone

Spec == Init /\ [][Next]_vars

\* ------------------------------------------- the command codec on its own
Commands == {GET_COMMANDS, SET_ADDRESS, ERASE_SECTOR}

\* parameters across the four bytes of a 32-bit value (below 2^31)
Params == {0, 1, 255, 256, 4660, 65535, 134217728, 305419896, 2147483647}

\* a direct dfuseCommand(command, param, len) call, up to its first await
CallCommand(command, param, len) ==
  /\ pc = "idle"
  /\ op' = "dfuseCommand"
  /\ args' = <<command, param, len>>
  /\ dfuseCommand(command, param, len, "none")
  /\ UNCHANGED <<session, ret, callVars, chunkVars, dfu_status, eraseVars,
                 state, polls, shortWrites, progress, logs>>

\* the command succeeded and was called directly: the call returns
CommandReturn ==
  /\ pc = "cmd_ret"
  /\ ctx = "none"
  /\ pc' = "done"
  /\ result' = <<"ok">>
  /\ UNCHANGED <<session, invocation, ctx, callVars, chunkVars, dfu_status,
                 eraseVars, state, trace, polls, shortWrites, progress, logs>>

InitCodec == Init /\ memoryInfo = NoMap /\ startAddress = NaN

NextCodec ==
  \/ \E c \in Commands, p \in Params, l \in 0..MaxParamLen : CallCommand(c, p, l)
  \/ CmdWriteDone
  \/ PollAgain
  \/ CmdPollDone
  \/ CommandReturn

SpecCodec == InitCodec /\ [][NextCodec]_vars

\* ---------------------------------------------- the memory-map queries alone
\* a getSegment(addr) call
CallGetSegment(a) ==
  /\ pc = "idle"
  /\ op' = "getSegment"
  /\ args' = <<a>>
  /\ IF ~HasMap(memoryInfo)
     THEN Throw(<<"NoMemoryMap">>) /\ UNCHANGED ret
     ELSE /\ ret' = getSegment(memoryInfo, a)
          /\ pc' = "done"
          /\ result' = <<"ok">>
  /\ UNCHANGED <<session, ctx, callVars, chunkVars, dfu_status, eraseVars,
                 state, trace, polls, shortWrites, progress, logs>>

\* a getSectorStart(addr) call (segment left out, so resolved by getSegment)
CallGetSectorStart(a) ==
  /\ pc = "idle"
  /\ op' = "getSectorStart"
  /\ args' = <<a>>
  /\ IF ~HasMap(memoryInfo)
     THEN Throw(<<"NoMemoryMap">>) /\ UNCHANGED ret
     ELSE IF getSegment(memoryInfo, a) = Null
     THEN Throw(<<"AddressOutOfRange">>) /\ UNCHANGED ret
     ELSE /\ ret' = getSectorStart(
                      memoryInfo.segments[getSegment(memoryInfo, a)], a)
          /\ pc' = "done"
          /\ result' = <<"ok">>
  /\ UNCHANGED <<session, ctx, callVars, chunkVars, dfu_status, eraseVars,
                 state, trace, polls, shortWrites, progress, logs>>

\* a getSectorEnd(addr) call (segment defaults to getSegment(addr))
CallGetSectorEnd(a) ==
  /\ pc = "idle"
  /\ op' = "getSectorEnd"
  /\ args' = <<a>>
  /\ IF ~HasMap(memoryInfo)
     THEN Throw(<<"NoMemoryMap">>) /\ UNCHANGED ret
     ELSE IF getSegment(memoryInfo, a) = Null
     THEN Throw(<<"AddressOutOfRange">>) /\ UNCHANGED ret
     ELSE /\ ret' = getSectorEnd(
                      memoryInfo.segments[getSegment(memoryInfo, a)], a)
          /\ pc' = "done"
          /\ result' = <<"ok">>
  /\ UNCHANGED <<session, ctx, callVars, chunkVars, dfu_status, eraseVars,
                 state, trace, polls, shortWrites, progress, logs>>

\* a getMaxReadSize(startAddr) call
CallGetMaxReadSize(a) ==
  /\ pc = "idle"
  /\ op' = "getMaxReadSize"
  /\ args' = <<a>>
  /\ IF ~HasMap(memoryInfo)
     THEN Throw(<<"NoMemoryMap">>) /\ UNCHANGED ret
     ELSE /\ ret' = getMaxReadSize(memoryInfo, a)
          /\ pc' = "done"
          /\ result' = <<"ok">>
  /\ UNCHANGED <<session, ctx, callVars, chunkVars, dfu_status, eraseVars,
                 state, trace, polls, shortWrites, progress, logs>>

QueryAddresses == 0..(MaxAddr + 1)

InitQuery == Init /\ startAddress = NaN

NextQuery ==
  \/ \E a \in QueryAddresses : CallGetSegment(a)
  \/ \E a \in QueryAddresses : CallGetSectorStart(a)
  \/ \E a \in QueryAddresses : CallGetSectorEnd(a)
  \/ \E a \in QueryAddresses : CallGetMaxReadSize(a)

SpecQuery == InitQuery /\ [][NextQuery]_vars


\* ======================================================== properties
\* ----------------------------------------------------- reading the trace
\* a DfuSe command with a 4-byte parameter, as the device receives it
IsCommand(ev, c) ==
  ev.op = "write" /\ ev.blk = 0 /\ Len(ev.data) = 5 /\ ev.data[1] = c
\* a data transfer at block index 2
IsChunk(ev) == ev.op = "write" /\ ev.blk = 2
\* the zero-length write at block index 0
IsZeroWrite(ev) == ev.op = "write" /\ ev.blk = 0 /\ Len(ev.data) = 0
\* the address a device decodes from a 4-byte little-endian parameter
paramOf(ev) ==
  ev.data[2] + 256 * ev.data[3] + 65536 * ev.data[4] + 16777216 * ev.data[5]

CeilDiv(n, c) == (n + c - 1) \div c

DeviceErrors == {"TransportError", "DfuseCommandFailed", "DfuWriteFailed"}
\* the device accepted every transfer in full, answered every poll with
\* STATUS_OK and raised no transport error
Cooperative ==
  /\ shortWrites = 0
  /\ \A i \in 1..Len(result) : result[i] \notin DeviceErrors
  /\ "error: manifest poll" \notin logs

\* the first byte of the image, and the last one if there is one, lie in
\* segments of the memory map
WriteRangeInMap ==
  /\ HasMap(memoryInfo)
  /\ getSegment(memoryInfo, startAddr) # Null
  /\ expected_size >= 1 =>
       getSegment(memoryInfo, startAddr + expected_size - 1) # Null

\* the trace is: ERASE_SECTOR commands, then k (SET_ADDRESS, chunk) pairs,
\* then one SET_ADDRESS and one zero-length write
WriteShape(k) ==
  /\ Len(trace) >= 2 * k + 2
  /\ LET e == Len(trace) - 2 * k - 2 IN
     /\ \A i \in 1..e : IsCommand(trace[i], ERASE_SECTOR)
     /\ \A j \in 1..k : /\ IsCommand(trace[e + 2 * j - 1], SET_ADDRESS)
                        /\ IsChunk(trace[e + 2 * j])
     /\ IsCommand(trace[Len(trace) - 1], SET_ADDRESS)
     /\ IsZeroWrite(trace[Len(trace)])

\* C1: for every image size N >= 0 and chunk size C >= 1, a do_write against
\* a cooperative device issues exactly ceil(N/C) (SET_ADDRESS, chunk at block
\* index 2) pairs and then exactly one SET_ADDRESS and one zero-length write
\* at block index 0.
C1_WriteIssuesCeilPairs ==
  (op = "do_write" /\ pc = "done" /\ Cooperative /\ WriteRangeInMap) =>
    /\ result = <<"ok">>
    /\ WriteShape(CeilDiv(expected_size, xfer_size))

\* the ERASE_SECTOR commands issued so far, and their addresses
EraseCmds == SelectSeq(trace, LAMBDA ev : IsCommand(ev, ERASE_SECTOR))
ErasedAddrs == {paramOf(EraseCmds[i]) : i \in 1..Len(EraseCmds)}

\* the sector starts of erasable segments whose sector overlaps [lo, hi)
SectorsToErase(mi, lo, hi) ==
  UNION { { a \in mi.segments[i].start..(mi.segments[i].end - 1) :
              /\ mi.segments[i].erasable
              /\ (a - mi.segments[i].start) % mi.segments[i].sectorSize = 0
              /\ lo < hi
              /\ a < hi
              /\ a + mi.segments[i].sectorSize > lo } :
          i \in 1..Len(mi.segments) }

\* the erase of this do_write has returned and nothing was issued after it
EraseReturned == pc = "chunk_loop" /\ Len(trace) = Len(EraseCmds)

\* sectorEnd(startAddr + length - 1) - sectorStart(startAddr)
EraseSpan ==
  getSectorEnd(memoryInfo.segments[
      getSegment(memoryInfo, startAddr + expected_size - 1)],
    startAddr + expected_size - 1)
  - getSectorStart(memoryInfo.segments[getSegment(memoryInfo, startAddr)],
                   startAddr)

\* C2: for an erase of length >= 1 whose first and last byte lie in
\* segments, exactly one ERASE_SECTOR is issued for each sector of an
\* erasable segment that overlaps the range, none for any other address, and
\* the last progress value equals the full span.
C2_EraseEachSectorOnce ==
  (op = "do_write" /\ expected_size >= 1 /\ WriteRangeInMap) =>
    /\ Cardinality(ErasedAddrs) = Len(EraseCmds)
    /\ ErasedAddrs \subseteq
         SectorsToErase(memoryInfo, startAddr, startAddr + expected_size)
    /\ EraseReturned =>
         /\ ErasedAddrs =
              SectorsToErase(memoryInfo, startAddr, startAddr + expected_size)
         /\ progress.called
         /\ progress.done = EraseSpan

\* C3: with the session startAddress unset, do_write and do_read use the
\* first segment's start as the effective start address, for every map with
\* at least one segment, also when that start is address 0.
C3_InferredStartIsFirstSegment ==
  (/\ op \in {"do_write", "do_read"}
   /\ isNaN(startAddress)
   /\ HasMap(memoryInfo)
   /\ Len(memoryInfo.segments) >= 1) =>
    /\ startAddr = memoryInfo.segments[1].start
    /\ result # <<"StartAddressNotFound">>

\* C4: in do_write an explicit start address that lies in no segment is
\* logged as an error and the write proceeds to issue device commands; it
\* does not end before any device command was sent.
C4_OutsideStartProceeds ==
  (op = "do_write" /\ pc = "done" /\ "error: start outside map" \in logs) =>
    trace # <<>>

\* s is an initial part of t
IsPrefix(s, t) == Len(s) <= Len(t) /\ \A i \in 1..Len(s) : s[i] = t[i]

\* the device operations of a read that found the device in state st and
\* works with start address a (a < 256)
ReadSequence(st, a) ==
  <<GetStateEv>>
  \o (IF st = dfuIDLE THEN <<>> ELSE <<AbortEv>>)
  \o <<WriteEv(0, <<SET_ADDRESS, a, 0, 0, 0>>), AbortEv, ReadEv(2)>>

\* C5: do_read issues getState; abortToIdle only if the state is not idle;
\* one SET_ADDRESS with the effective start address; one abortToIdle; then
\* the base read with block offset 2, which is not issued while that
\* abortToIdle is still in flight. Start addresses inside and outside the map.
C5_ReadOrder ==
  (op = "do_read" /\ trace # <<>>) =>
    /\ startAddr = IF isNaN(startAddress) THEN memoryInfo.segments[1].start
                   ELSE startAddress
    /\ state = "none" => trace = <<GetStateEv>> /\ pc \in {"r_getState", "done"}
    /\ state # "none" => IsPrefix(trace, ReadSequence(state, startAddr))
    /\ (pc = "r_read" \/ result = <<"ok">>) =>
         trace = ReadSequence(state, startAddr)
    /\ pc = "r_commit" =>
         (trace \o <<ReadEv(2)>>) = ReadSequence(state, startAddr)

\* C5 witness: a read from a start address outside the map, device found
\* idle, ran to its end
C5_Witness ==
  /\ op = "do_read"
  /\ result = <<"ok">>
  /\ state = dfuIDLE
  /\ "warning: start outside map" \in logs

C6_Step ==
  /\ (pc' = "cmd_poll" /\ pc # "cmd_poll") =>
       /\ pc = "cmd_write"
       /\ Len(trace') = 1
       /\ trace'[1].op = "write" /\ trace'[1].blk = 0
       /\ trace'[1].data[1] = args'[1]
  /\ (pc = "cmd_write" /\ pc' = "done") => result'[1] = "DfuseCommandFailed"
  /\ (pc' = "cmd_ret" /\ pc # "cmd_ret") =>
       /\ pc = "cmd_poll"
       /\ dfu_status'.state \in DevStates \ {dfuDNBUSY}
       /\ dfu_status'.status = STATUS_OK
  /\ (pc = "cmd_poll" /\ pc' = "done" /\ dfu_status' # NoStatus) =>
       /\ dfu_status'.state \in DevStates \ {dfuDNBUSY}
       /\ dfu_status'.status # STATUS_OK
       /\ result' = <<"DfuseCommandFailed">>
  /\ result' = <<"ok">> => pc \in {"cmd_ret", "done"} /\ trace' = trace

\* C6: every DfuSe command is one base write at block index 0 followed by
\* polling until the reported state is not dfuDNBUSY; it succeeds only if
\* the write succeeded and the final polled status is OK, and it fails with
\* DfuseCommandFailed when the write raises or the final status is not OK.
C6_CommandProtocol == [][C6_Step]_vars

\* C6 witness: GET_COMMANDS succeeded after the device reported busy once
C6_Witness ==
  /\ op = "dfuseCommand"
  /\ args[1] = GET_COMMANDS
  /\ result = <<"ok">>
  /\ polls >= 1

\* C7: with parameter length 4 the payload is 5 bytes, the command byte and
\* the parameter least significant byte first; with length 1 it is 2 bytes,
\* the command byte and param mod 256; any other length fails with
\* UnsupportedParamLength and nothing is sent.
C7_PayloadLayout ==
  op = "dfuseCommand" =>
    LET command == args[1]
        param == args[2]
        len == args[3]
    IN IF len = 4
       THEN /\ Len(trace) = 1
            /\ trace[1].op = "write" /\ trace[1].blk = 0
            /\ Len(trace[1].data) = 5
            /\ trace[1].data[1] = command
            /\ \A i \in 0..3 : trace[1].data[2 + i] = (param \div (256 ^ i)) % 256
       ELSE IF len = 1
       THEN /\ Len(trace) = 1
            /\ trace[1].op = "write" /\ trace[1].blk = 0
            /\ Len(trace[1].data) = 2
            /\ trace[1].data[1] = command
            /\ trace[1].data[2] = param % 256
       ELSE /\ trace = <<>>
            /\ pc = "done"
            /\ result = <<"UnsupportedParamLength">>

\* C7 witness: SET_ADDRESS 0x12345678 was sent as 21 78 56 34 12
C7_Witness ==
  /\ op = "dfuseCommand"
  /\ args = <<SET_ADDRESS, 305419896, 4>>
  /\ trace = <<WriteEv(0, <<33, 120, 86, 52, 18>>)>>

C8_Step ==
  /\ pc # "done"
  /\ (pc = "chunk_poll" /\ pc' # "chunk_poll"
        /\ dfu_status'.status # STATUS_OK) =>
       /\ pc' = "done"
       /\ result' = <<"DfuWriteFailed">>
       /\ trace' = trace
  /\ result' = <<"DfuWriteFailed">> =>
       /\ pc = "chunk_poll"
       /\ IsChunk(trace'[Len(trace')])

\* C8: if the poll after a chunk transfer reports a status other than OK,
\* the write fails with DfuWriteFailed at once: the failing chunk's transfer
\* is the last device operation of that write.
C8_FailedChunkEndsWrite == [][C8_Step]_vars

\* C8 witness: the write failed on a later chunk, after bytes were sent
C8_Witness ==
  /\ result = <<"DfuWriteFailed">>
  /\ 1 <= bytes_sent /\ bytes_sent < expected_size

C9_Step ==
  /\ (pc = "manifest_poll" /\ pc' # "manifest_poll") =>
       pc' = "done" /\ result' = <<"ok">>
  /\ (pc' = "manifest_poll" /\ pc # "manifest_poll") =>
       /\ pc = "manifest_write"
       /\ IsZeroWrite(trace[Len(trace)])
       /\ IsCommand(trace[Len(trace) - 1], SET_ADDRESS)
  /\ "error: manifest poll" \in logs' => result' = <<"ok">>

\* C9: once the manifestation SET_ADDRESS and zero-length write have
\* succeeded, the write ends successfully whether the final poll succeeds or
\* throws; the error of that poll is only logged.
C9_ManifestPollNonFatal == [][C9_Step]_vars

\* C9 witness: the final poll threw and the write ended successfully
C9_Witness ==
  /\ op = "do_write"
  /\ result = <<"ok">>
  /\ "error: manifest poll" \in logs

\* C10: getSegment(a) returns the segment whose half-open range contains a,
\* none when a lies in no segment (the end of the last segment, an address
\* in a gap), and fails with NoMemoryMap when no map is loaded.
C10_GetSegment ==
  (op = "getSegment" /\ pc = "done") =>
    LET a == args[1]
        segs == memoryInfo.segments
    IN IF ~memoryInfo.present
       THEN result = <<"NoMemoryMap">>
       ELSE /\ result = <<"ok">>
            /\ \A i \in 1..Len(segs) :
                 (segs[i].start <= a /\ a + 1 <= segs[i].end) => ret = i
            /\ (\A i \in 1..Len(segs) : a < segs[i].start \/ segs[i].end <= a)
                 => ret = Null

\* C10 witness: the address just past the last segment resolved to none
C10_Witness ==
  /\ op = "getSegment"
  /\ pc = "done"
  /\ Len(memoryInfo.segments) >= 2
  /\ args[1] = memoryInfo.segments[Len(memoryInfo.segments)].end
  /\ ret = Null

\* C11: for an address a inside a segment, getSectorStart(a) <= a <
\* getSectorStart(a) + sectorSize, getSectorStart(a) - segment.start is a
\* multiple of sectorSize, and getSectorEnd(a) = getSectorStart(a) +
\* sectorSize (one full sector past a boundary address, never the address
\* itself); for an address in no segment of the map both fail with
\* AddressOutOfRange.
C11_SectorBounds ==
  (op \in {"getSectorStart", "getSectorEnd"} /\ pc = "done"
     /\ memoryInfo.present) =>
    LET a == args[1]
        segs == memoryInfo.segments
        in == {i \in 1..Len(segs) : segs[i].start <= a /\ a < segs[i].end}
    IN IF in = {}
       THEN result = <<"AddressOutOfRange">>
       ELSE /\ result = <<"ok">>
            /\ \A i \in in :
                 LET lo == IF op = "getSectorStart" THEN ret
                           ELSE ret - segs[i].sectorSize
                 IN /\ lo <= a
                    /\ a < lo + segs[i].sectorSize
                    /\ (lo - segs[i].start) % segs[i].sectorSize = 0
                    /\ op = "getSectorEnd" =>
                         /\ ret = getSectorStart(segs[i], a) + segs[i].sectorSize
                         /\ ret > a

\* C11 witness: the sector end of an address on an inner sector boundary is
\* one full sector further
C11_Witness ==
  /\ op = "getSectorEnd"
  /\ result = <<"ok">>
  /\ \E i \in 1..Len(memoryInfo.segments) :
       LET seg == memoryInfo.segments[i] IN
       /\ seg.start < args[1] /\ args[1] < seg.end
       /\ (args[1] - seg.start) % seg.sectorSize = 0
       /\ ret = args[1] + seg.sectorSize

\* a lies in a readable segment of the map
ReadableAt(mi, a) ==
  \E i \in 1..Len(mi.segments) :
    /\ mi.segments[i].start <= a /\ a < mi.segments[i].end
    /\ mi.segments[i].readable

\* the number of addresses a, a+1, ... that all lie in readable segments
ReadableRun(mi, a) ==
  Cardinality({k \in 0..(MaxAddr + 2) :
                 \A j \in 0..k : ReadableAt(mi, a + j)})

\* C12: getMaxReadSize(startAddr) is the number of bytes of the longest run
\* of addresses from startAddr on that all lie in readable segments without
\* a gap: 0 when startAddr lies in a non-readable segment, and 0 without an
\* error when startAddr lies in no segment of the map.
C12_MaxReadSize ==
  (op = "getMaxReadSize" /\ pc = "done" /\ memoryInfo.present) =>
    /\ result = <<"ok">>
    /\ ret = ReadableRun(memoryInfo, args[1])

\* C12 witness: a read starting inside a readable segment runs through the
\* adjacent readable segment and stops at the non-readable one
C12_Witness ==
  /\ op = "getMaxReadSize"
  /\ result = <<"ok">>
  /\ Len(memoryInfo.segments) = 3
  /\ args[1] = 2
  /\ ret = 5

\* the erase of a do_write is running: at the head of its loop or inside
\* one of its ERASE_SECTOR commands
InErase ==
  /\ op = "do_write"
  /\ \/ pc = "erase_loop"
     \/ pc \in {"cmd_write", "cmd_poll", "cmd_ret"} /\ ctx = "erase"

\* a step that completes one iteration of the erase loop
EraseIteration ==
  /\ InErase
  /\ pc \in {"erase_loop", "cmd_ret"}
  /\ pc' = "erase_loop"

\* C13: for every map that satisfies the data-model invariant (gaps between
\* segments allowed) and every erase range whose first and last byte lie in
\* segments, each iteration of the erase loop strictly increases addr.
C13_EraseLoopAdvances ==
  [][(EraseIteration /\ expected_size >= 1 /\ WriteRangeInMap) => addr' > addr]_vars

\* C14: during any erase the values passed to the progress callback are
\* non-decreasing, every value v satisfies 0 <= v <= total, and total is the
\* span sectorEnd(startAddr+length-1) - sectorStart(startAddr) in every
\* call, also for iterations that skip a non-erasable region or land on an
\* address that resolves to no segment.
C14_EraseProgressMonotonic ==
  [][(InErase' /\ progress'.called) =>
       /\ 0 <= progress'.done
       /\ progress'.done <= progress'.total
       /\ progress'.total = EraseSpan'
       /\ progress.called => progress.done <= progress'.done]_vars

\* C18: for every erase(startAddr, length) with length >= 0, every
\* ERASE_SECTOR command carries the sector-aligned address of a sector of an
\* erasable segment that overlaps [startAddr, startAddr+length); an empty
\* range erases nothing.
C18_EraseOnlyOverlapping ==
  (op = "do_write" /\ HasMap(memoryInfo) /\ ~isNaN(startAddr)) =>
    ErasedAddrs \subseteq
      SectorsToErase(memoryInfo, startAddr, startAddr + expected_size)

\* a programming operation of do_write: a SET_ADDRESS command or a chunk
IsProgramming(ev) == IsCommand(ev, SET_ADDRESS) \/ IsChunk(ev)

C15_Step ==
  /\ pc # "done"
  /\ op' = "do_write" =>
       /\ \A i \in 1..Len(trace') : \A j \in (i + 1)..Len(trace') :
            IsProgramming(trace'[i]) => ~IsCommand(trace'[j], ERASE_SECTOR)
       /\ (\E i \in 1..Len(trace') : IsProgramming(trace'[i])) =>
            ~InErase' /\ addr' >= endAddr'
       /\ (pc' = "done" /\ ctx' = "erase") =>
            \A i \in 1..Len(trace') : ~IsProgramming(trace'[i])
  /\ (op = "do_write" /\ pc = "cmd_poll" /\ ctx = "erase"
        /\ pc' # "cmd_poll" /\ dfu_status'.status # STATUS_OK) =>
       pc' = "done" /\ trace' = trace

\* C15: in every run of do_write no chunk transfer and no chunk-loop
\* SET_ADDRESS is issued until every ERASE_SECTOR command of the erase has
\* been sent and its poll has ended with STATUS_OK; if an erase command
\* fails no chunk is ever transferred.
C15_EraseBeforeProgramming == [][C15_Step]_vars

\* C15 witness: two sectors were erased and the first chunk is in flight
C15_Witness ==
  /\ op = "do_write"
  /\ pc = "chunk_xfer"
  /\ Len(EraseCmds) = 2
  /\ Len(trace) = 4

\* the chunk transfers issued so far and the bytes they asked for
Chunks == SelectSeq(trace, IsChunk)
RECURSIVE RequestedBytes(_)
RequestedBytes(cs) ==
  IF cs = <<>> THEN 0 ELSE Len(Head(cs).data) + RequestedBytes(Tail(cs))

\* n bytes of the image from offset k on
ImageBytes(k, n) == [x \in 1..n |-> k + x - 1]

C16_Step ==
  /\ (op = "do_write" /\ pc = "chunk_poll" /\ pc' = "chunk_loop") =>
       /\ chunk_size = Min(expected_size - bytes_sent, xfer_size)
       /\ address' = address + chunk_size
       /\ bytes_sent' = bytes_sent + bytes_written
  /\ (op' = "do_write" /\ pc' = "chunk_loop") =>
       /\ address' = startAddr' + RequestedBytes(Chunks')
       /\ bytes_sent' <= address' - startAddr'
       /\ shortWrites' >= 1 => address' - startAddr' > bytes_sent'
  /\ (op' = "do_write" /\ pc' = "chunk_xfer") =>
       LET n == Len(trace') IN
       /\ trace'[n].data = ImageBytes(bytes_sent', chunk_size')
       /\ IsCommand(trace'[n - 1], SET_ADDRESS)
       /\ paramOf(trace'[n - 1]) =
            startAddr' + RequestedBytes(Chunks') - chunk_size'

\* C16: in each successful iteration of the chunk loop the address cursor
\* advances by the requested chunk size min(bytes left, chunkSize) and the
\* byte counter by the bytes the base write reported; after a short write
\* address - startAddress > bytes_sent from then on, and the next chunk is
\* read from image offset bytes_sent but targeted at startAddress + (sum of
\* the requested chunk sizes).
C16_CursorsDiverge == [][C16_Step]_vars

\* C16 witness: after a short write the next chunk is in flight, cut from
\* offset bytes_sent and addressed further on
C16_Witness ==
  /\ op = "do_write"
  /\ pc = "chunk_xfer"
  /\ shortWrites = 1
  /\ Len(Chunks) >= 2
  /\ address - startAddr > bytes_sent

\* C17: if every base write reports the full chunk, the chunk taken from
\* image offset k is immediately preceded by SET_ADDRESS(startAddress + k),
\* address = startAddress + bytes_sent at the head of the chunk loop, the
\* offsets are 0, C, 2C, ... and the chunks cover the image exactly once.
C17_ChunksCoverImage ==
  (op = "do_write" /\ shortWrites = 0) =>
    LET e == Len(EraseCmds) IN
    /\ pc = "chunk_loop" => address = startAddr + bytes_sent
    /\ \A i \in 1..Len(trace) :
         IsChunk(trace[i]) =>
           LET k == (((i - e) \div 2) - 1) * xfer_size IN
           /\ (i - e) % 2 = 0
           /\ trace[i].data =
                ImageBytes(k, Min(k + xfer_size, expected_size) - k)
           /\ IsCommand(trace[i - 1], SET_ADDRESS)
           /\ paramOf(trace[i - 1]) = startAddr + k
    /\ result = <<"ok">> =>
         /\ Len(Chunks) = CeilDiv(expected_size, xfer_size)
         /\ RequestedBytes(Chunks) = expected_size

\* C17 witness: an image of 3 bytes written in chunks of 2 and 1
C17_Witness ==
  /\ op = "do_write"
  /\ shortWrites = 0
  /\ result = <<"ok">>
  /\ expected_size = 3
  /\ xfer_size = 2

\* ------------------------------ the caller sets startAddress during a call
\* the operation is suspended on a device operation (an await)
Suspended ==
  pc \in {"cmd_write", "cmd_poll", "chunk_xfer", "chunk_poll", "manifest_write",
          "manifest_poll", "r_getState", "r_abort", "r_commit", "r_read"}

\* the values the caller assigns: none, the lowest and the highest address
CallerStarts == {NaN, 0, MaxAddr}

\* the caller assigns the public field startAddress while the call is suspended
SetStartAddress ==
  /\ Suspended
  /\ startAddress' \in CallerStarts \ {startAddress}
  /\ UNCHANGED <<memoryInfo, invocation, pc, ctx, result, callVars, chunkVars,
                 dfu_status, eraseVars, state, trace, polls, shortWrites,
                 progress, logs>>

\* the maps of the sessions in which the caller interferes
ConcurrentMaps == {m \in Maps : HasMap(m) /\ Len(m.segments) = 2}

InitConcurrent == Init /\ memoryInfo \in ConcurrentMaps
NextConcurrent == Next \/ SetStartAddress
SpecConcurrent == InitConcurrent /\ [][NextConcurrent]_vars

\* every variable but the session's startAddress
allButStartAddress ==
  <<memoryInfo, op, args, ret, pc, ctx, result, xfer_size, expected_size,
    startAddr, bytes_sent, address, chunk_size, bytes_written, dfu_status,
    segment, addr, endAddr, bytesErased, bytesToErase, sectorAddr, state, trace,
    polls, shortWrites, progress, logs>>

C19_Step ==
  /\ startAddress' # startAddress => Suspended /\ UNCHANGED allButStartAddress
  /\ (pc = "idle" /\ op' = "do_write" /\ pc' # "done") =>
       /\ startAddr' = IF isNaN(startAddress)
                       THEN memoryInfo.segments[1].start
                       ELSE startAddress
       /\ addr' = getSectorStart(
                    memoryInfo.segments[getSegment(memoryInfo, startAddr')],
                    startAddr')
  /\ (op = "do_write" /\ pc # "idle") => startAddr' = startAddr
  /\ (op = "do_write" /\ Len(trace') = Len(trace) + 1
        /\ IsCommand(trace'[Len(trace')], SET_ADDRESS)) =>
       paramOf(trace'[Len(trace')]) =
         IF ctx' = "manifest" THEN startAddr
         ELSE startAddr + RequestedBytes(Chunks)

\* C19: do_write reads the session's startAddress once, when it is called;
\* only the caller ever changes the field, and when the caller changes it
\* while the write is suspended the chunk SET_ADDRESS values and the
\* manifestation SET_ADDRESS still come from the start address resolved at
\* the call, which is the one erase was given; no write or read assigns the
\* field, also when the start address was inferred.
C19_StartAddressReadOnce == [][C19_Step]_vars

\* C19 witness: a write ended well, manifested at its resolved start address,
\* while the caller had set the field to another address in the meantime
C19_Witness ==
  /\ op = "do_write"
  /\ pc = "done"
  /\ result = <<"ok">>
  /\ ~isNaN(startAddress)
  /\ startAddress # startAddr
  /\ IsCommand(trace[Len(trace) - 1], SET_ADDRESS)
  /\ paramOf(trace[Len(trace) - 1]) = startAddr

====
